---- MODULE Spec2Model ----
(***************************************************************************)
(* Question answering over a knowledge graph: the rule-based mapping of a  *)
(* question to a Cypher template and parameter bag (api/nlp_mapping.py),   *)
(* the service that runs the mapped query (api/services.py) and the lazy   *)
(* Neo4j driver wrapper (api/neo4j_service.py).                            *)
(*                                                                         *)
(* A Python str is a sequence of one-character strings, so that strip,     *)
(* lower, startswith, replace and `in` are computed character by           *)
(* character as CPython computes them.                                     *)
(***************************************************************************)
EXTENDS Integers, Sequences, FiniteSets, TLC

VARIABLES pc, body, request, frame, response, http, ranCypher, cypherOut,
          submitted, env, driver, config_err, driversMade, mapIn, mapOut,
          aliasIn, aliasOut, svcOut, svcCalls

vars == <<pc, body, request, frame, response, http, ranCypher, cypherOut,
          submitted, env, driver, config_err, driversMade, mapIn, mapOut,
          aliasIn, aliasOut, svcOut, svcCalls>>

-----------------------------------------------------------------------------
(* Python values *)

\* None where a str is expected: a one-element sequence that is no character.
None == <<"None">>

\* None where a CypherQuery is expected (map_question's "no rule matched").
NoMapping == [matched |-> FALSE]

\* None as a parameter value ($format IS NULL).
Null == "null"

-----------------------------------------------------------------------------
(* AskRequestSerializer's bounds on top_k *)

MinTopK == 1
MaxTopK == 100
DefaultTopK == 10

-----------------------------------------------------------------------------
(* str methods *)

Whitespace == {" ", "\t"}

Uppercase ==
  <<"A","B","C","D","E","F","G","H","I","J","K","L","M",
    "N","O","P","Q","R","S","T","U","V","W","X","Y","Z">>

Lowercase ==
  <<"a","b","c","d","e","f","g","h","i","j","k","l","m",
    "n","o","p","q","r","s","t","u","v","w","x","y","z">>

lowerChar(c) ==
  IF \E i \in 1..Len(Uppercase) : Uppercase[i] = c
    THEN Lowercase[CHOOSE i \in 1..Len(Uppercase) : Uppercase[i] = c]
    ELSE c

lower(s) == [i \in 1..Len(s) |-> lowerChar(s[i])]

RECURSIVE lstripChars(_, _)
lstripChars(s, chars) ==
  IF s # <<>> /\ Head(s) \in chars THEN lstripChars(Tail(s), chars) ELSE s

RECURSIVE rstripChars(_, _)
rstripChars(s, chars) ==
  IF s # <<>> /\ s[Len(s)] \in chars
    THEN rstripChars(SubSeq(s, 1, Len(s) - 1), chars)
    ELSE s

strip(s) == rstripChars(lstripChars(s, Whitespace), Whitespace)

rstripQ(s) == rstripChars(s, {"?"})

startswith(s, prefix) ==
  Len(s) >= Len(prefix) /\ SubSeq(s, 1, Len(prefix)) = prefix

endswith(s, suffix) ==
  Len(s) >= Len(suffix) /\ SubSeq(s, Len(s) - Len(suffix) + 1, Len(s)) = suffix

\* str.find: the first index (from 1) where sub occurs in s, 0 when it does not.
Occurrences(s, sub) ==
  {i \in 1..(Len(s) - Len(sub) + 1) : SubSeq(s, i, i + Len(sub) - 1) = sub}

find(s, sub) ==
  IF Occurrences(s, sub) = {} THEN 0
  ELSE CHOOSE i \in Occurrences(s, sub) : \A j \in Occurrences(s, sub) : i <= j

\* sub in s
contains(s, sub) == Occurrences(s, sub) # {}

\* s.replace(old, "", 1)
replaceFirst(s, old) ==
  LET i == find(s, old) IN
  IF i = 0 THEN s
  ELSE SubSeq(s, 1, i - 1) \o SubSeq(s, i + Len(old), Len(s))

\* s.replace(".", "")
removePeriods(s) == SelectSeq(s, LAMBDA c : c # ".")

\* s[len(prefix):-len(suffix)] for a non-empty suffix
sliceBetween(s, prefix, suffix) ==
  SubSeq(s, Len(prefix) + 1, Len(s) - Len(suffix))

\* s.split(): the maximal runs of non-whitespace characters
RECURSIVE split(_)
split(s) ==
  LET t == lstripChars(s, Whitespace) IN
  IF t = <<>> THEN <<>>
  ELSE LET ends == {i \in 1..Len(t) : t[i] \in Whitespace}
           n == IF ends = {} THEN Len(t) + 1
                ELSE CHOOSE i \in ends : \A j \in ends : i <= j
       IN <<SubSeq(t, 1, n - 1)>> \o split(SubSeq(t, n, Len(t)))

-----------------------------------------------------------------------------
(* RuleBasedNLPMappings._normalize_person_input *)

TENDULKAR == <<"t","e","n","d","u","l","k","a","r">>

SACHIN_TENDULKAR == <<"S","a","c","h","i","n"," ","T","e","n","d","u","l","k","a","r">>

\* The orders in which a Python set of up to three strings may be iterated:
\* the code fixes none, so each call's order is a choice among these.
Orders == {<<1,2,3>>, <<1,3,2>>, <<2,1,3>>, <<2,3,1>>, <<3,1,2>>, <<3,2,1>>}

\* (person or "").strip()
PersonOrEmpty(person) == IF person = None THEN <<>> ELSE strip(person)

\* Mutation: the surname is compared without tokens[1].lower().
LooksLikeInitialTendulkar_CaseSensitive(p) ==
  LET tokens == split(removePeriods(p)) IN
  /\ Len(tokens) = 2
  /\ Len(tokens[1]) = 1
  /\ tokens[2] = TENDULKAR

LooksLikeInitialTendulkar(p) ==
  LET tokens == split(removePeriods(p)) IN
  /\ Len(tokens) = 2
  /\ Len(tokens[1]) = 1
  /\ lower(tokens[2]) = TENDULKAR

\* The elements added to `variants`, in the order the code adds them.
VariantsAdded(p) ==
  <<p, strip(removePeriods(p))>>
    \o (IF LooksLikeInitialTendulkar(p) THEN <<SACHIN_TENDULKAR>> ELSE <<>>)

\* The set `variants` without its empty strings.
AliasSet(person) ==
  LET p == PersonOrEmpty(person) IN
  IF p = <<>> THEN {}
  ELSE {v \in {VariantsAdded(p)[i] : i \in 1..Len(VariantsAdded(p))} : v # <<>>}

RECURSIVE ListInOrder(_, _, _)
ListInOrder(added, ord, seen) ==
  IF ord = <<>> THEN <<>>
  ELSE LET i == Head(ord) IN
       IF i <= Len(added) /\ added[i] # <<>> /\ added[i] \notin seen
         THEN <<added[i]>> \o ListInOrder(added, Tail(ord), seen \cup {added[i]})
         ELSE ListInOrder(added, Tail(ord), seen)

\* [v for v in variants if v], iterated in the order ord.
_normalize_person_input(person, ord) ==
  LET p == PersonOrEmpty(person) IN
  IF p = <<>> THEN <<>> ELSE ListInOrder(VariantsAdded(p), ord, {})

-----------------------------------------------------------------------------
(* RuleBasedNLPMappings._person_where_clause: a template is the sequence   *)
(* of the string pieces it is concatenated from.                           *)

_person_where_clause(f) ==
  LET single_pred ==
        <<"(",
          " toLower(", f, ".name) CONTAINS toLower(coalesce($person, '')) OR ",
          " toLower(coalesce(", f, ".full_name, '')) CONTAINS toLower(coalesce($person, '')) OR ",
          " toLower(coalesce(", f, ".nickname, '')) CONTAINS toLower(coalesce($person, '')) ",
          ")">>
      list_pred ==
        <<"(",
          " ANY(personParam IN coalesce($persons, []) WHERE ",
          "   toLower(", f, ".name) CONTAINS toLower(personParam) OR ",
          "   toLower(coalesce(", f, ".full_name, '')) CONTAINS toLower(personParam) OR ",
          "   toLower(coalesce(", f, ".nickname, '')) CONTAINS toLower(personParam)",
          " )",
          ")">>
  IN <<"((">> \o list_pred \o <<") OR (">> \o single_pred \o <<"))">>

CypherQuery(query, parameters) ==
  [matched |-> TRUE, query |-> query, parameters |-> parameters]

\* Mutation: the list is used from three variants on (len(persons) > 2).
PersonParams_FromThree(person, top_k, ord) ==
  LET persons == _normalize_person_input(person, ord) IN
  IF Len(persons) > 2
    THEN [top_k |-> top_k, persons |-> persons]
    ELSE [top_k |-> top_k,
          person |-> IF persons # <<>> THEN persons[1] ELSE person]

\* persons = self._normalize_person_input(person); params = {...}: the block
\* the four person rules share.
PersonParams(person, top_k, ord) ==
  LET persons == _normalize_person_input(person, ord) IN
  IF Len(persons) > 1
    THEN [top_k |-> top_k, persons |-> persons]
    ELSE [top_k |-> top_k,
          person |-> IF persons # <<>> THEN persons[1] ELSE person]

-----------------------------------------------------------------------------
(* The generic rules of map_question, in the order of the code *)

WHO_WORKS_AT == <<"w","h","o"," ","w","o","r","k","s"," ","a","t"," ">>
WHERE_IS == <<"w","h","e","r","e"," ","i","s"," ">>
LOCATED == <<" ","l","o","c","a","t","e","d","?">>
LIST_PEOPLE_IN == <<"l","i","s","t"," ","p","e","o","p","l","e"," ","i","n"," ">>
WHAT_ORGANIZATIONS_IS == <<"w","h","a","t"," ","o","r","g","a","n","i","z","a","t","i","o","n","s"," ","i","s"," ">>
AFFILIATED_WITH == <<" ","a","f","f","i","l","i","a","t","e","d"," ","w","i","t","h","?">>
WHO_IS_THE_COACH_OF == <<"w","h","o"," ","i","s"," ","t","h","e"," ","c","o","a","c","h"," ","o","f"," ">>
WHO_COACHED == <<"w","h","o"," ","c","o","a","c","h","e","d"," ">>
WHO_IS == <<"w","h","o"," ","i","s"," ">>

QueryWorksAt ==
  <<"MATCH (p:Person)-[:WORKS_AT]->(o:Organization {name: $org}) ",
    "RETURN p.name AS person LIMIT $top_k">>

QueryLocated ==
  <<"MATCH (p:Person)-[:LOCATED_IN]->(l:Location) ", "WHERE ">>
    \o _person_where_clause("p")
    \o <<" ", "RETURN l.name AS location LIMIT $top_k">>

QueryListPeople ==
  <<"MATCH (o:Organization {name: $org})<-[:WORKS_AT]-(p:Person) ",
    "RETURN p.name AS person ORDER BY p.name LIMIT $top_k">>

QueryAffiliated ==
  <<"MATCH (p:Person)-[:WORKS_AT]->(o:Organization) ", "WHERE ">>
    \o _person_where_clause("p")
    \o <<" ", "RETURN o.name AS organization ORDER BY o.name LIMIT $top_k">>

QueryCoach ==
  <<"MATCH (p:Person) ", "WHERE ">>
    \o _person_where_clause("p")
    \o <<" ",
         "OPTIONAL MATCH (c1:Person)-[:COACHED]->(p) ",
         "OPTIONAL MATCH (p)-[:COACHED_BY]->(c2:Person) ",
         "WITH p, coalesce(c1, c2) AS coach ",
         "WHERE coach IS NOT NULL ",
         "RETURN DISTINCT coach.name AS coach ",
         "LIMIT $top_k">>

QueryWhoIs ==
  <<"MATCH (p:Person) ", "WHERE ">>
    \o _person_where_clause("p")
    \o <<" ",
         "OPTIONAL MATCH (p)-[:WORKS_AT]->(o:Organization) ",
         "OPTIONAL MATCH (p)-[:LOCATED_IN]->(l:Location) ",
         "RETURN p.name AS person, o.name AS organization, l.name AS location ",
         "LIMIT $top_k">>

WorksAtPred(q) == startswith(q, WHO_WORKS_AT)
WorksAtOrg(q) == strip(rstripQ(replaceFirst(q, WHO_WORKS_AT)))
\* Mutation: the organization is written into the query text.
RuleWorksAt_Interpolated(q, top_k) ==
  IF WorksAtPred(q) /\ WorksAtOrg(q) # <<>>
    THEN CypherQuery(<<"MATCH (p:Person)-[:WORKS_AT]->(o:Organization {name: '">>
                       \o WorksAtOrg(q)
                       \o <<"'}) ", "RETURN p.name AS person LIMIT $top_k">>,
                     [org |-> WorksAtOrg(q), top_k |-> top_k])
    ELSE NoMapping

RuleWorksAt(q, top_k) ==
  IF WorksAtPred(q) /\ WorksAtOrg(q) # <<>>
    THEN CypherQuery(QueryWorksAt, [org |-> WorksAtOrg(q), top_k |-> top_k])
    ELSE NoMapping

LocatedPred(q) == startswith(q, WHERE_IS) /\ endswith(q, LOCATED)
LocatedPerson(q) == strip(sliceBetween(q, WHERE_IS, LOCATED))
RuleLocated(q, top_k, ord) ==
  IF LocatedPred(q) /\ LocatedPerson(q) # <<>>
    THEN CypherQuery(QueryLocated, PersonParams(LocatedPerson(q), top_k, ord))
    ELSE NoMapping

ListPeoplePred(q) == startswith(q, LIST_PEOPLE_IN)
ListPeopleOrg(q) == strip(rstripQ(replaceFirst(q, LIST_PEOPLE_IN)))
RuleListPeople(q, top_k) ==
  IF ListPeoplePred(q) /\ ListPeopleOrg(q) # <<>>
    THEN CypherQuery(QueryListPeople, [org |-> ListPeopleOrg(q), top_k |-> top_k])
    ELSE NoMapping

AffiliatedPred(q) ==
  startswith(q, WHAT_ORGANIZATIONS_IS) /\ endswith(q, AFFILIATED_WITH)
AffiliatedPerson(q) ==
  strip(replaceFirst(replaceFirst(q, WHAT_ORGANIZATIONS_IS), AFFILIATED_WITH))
RuleAffiliated(q, top_k, ord) ==
  IF AffiliatedPred(q) /\ AffiliatedPerson(q) # <<>>
    THEN CypherQuery(QueryAffiliated, PersonParams(AffiliatedPerson(q), top_k, ord))
    ELSE NoMapping

CoachPred(q) == startswith(q, WHO_IS_THE_COACH_OF) \/ startswith(q, WHO_COACHED)
CoachPerson(q) ==
  strip(rstripQ(replaceFirst(replaceFirst(q, WHO_IS_THE_COACH_OF), WHO_COACHED)))
RuleCoach(q, top_k, ord) ==
  IF CoachPred(q) /\ CoachPerson(q) # <<>>
    THEN CypherQuery(QueryCoach, PersonParams(CoachPerson(q), top_k, ord))
    ELSE NoMapping

WhoIsPred(q) == startswith(q, WHO_IS)
WhoIsPerson(q) == strip(rstripQ(replaceFirst(q, WHO_IS)))
\* Mutation: the who-is rule is left out.
RuleWhoIs_Absent(q, top_k, ord) == NoMapping

RuleWhoIs(q, top_k, ord) ==
  IF WhoIsPred(q) /\ WhoIsPerson(q) # <<>>
    THEN CypherQuery(QueryWhoIs, PersonParams(WhoIsPerson(q), top_k, ord))
    ELSE NoMapping

-----------------------------------------------------------------------------
(* The Sachin Tendulkar rules of map_question, in the order of the code *)

SACHIN == <<"s","a","c","h","i","n"," ","t","e","n","d","u","l","k","a","r">>
WHAT_TEAMS_DID == <<"w","h","a","t"," ","t","e","a","m","s"," ","d","i","d">>
PLAY_FOR == <<"p","l","a","y"," ","f","o","r">>
TEAMS_PLAYED_FOR == <<"t","e","a","m","s"," ","s","a","c","h","i","n"," ","t","e","n","d","u","l","k","a","r"," ","p","l","a","y","e","d"," ","f","o","r","?">>
WHAT_RECORDS_DOES == <<"w","h","a","t"," ","r","e","c","o","r","d","s"," ","d","o","e","s">>
HOLD == <<"h","o","l","d">>
SACHIN_RECORDS == <<"s","a","c","h","i","n"," ","t","e","n","d","u","l","k","a","r"," ","r","e","c","o","r","d","s","?">>
RECORDS_OF_SACHIN == <<"r","e","c","o","r","d","s"," ","o","f"," ","s","a","c","h","i","n"," ","t","e","n","d","u","l","k","a","r","?">>
WHEN_DID == <<"w","h","e","n"," ","d","i","d">>
DEBUT == <<"d","e","b","u","t">>
RETIRE == <<"r","e","t","i","r","e">>
WHAT_ARE_THE_CAREER_STATISTICS_OF == <<"w","h","a","t"," ","a","r","e"," ","t","h","e"," ","c","a","r","e","e","r"," ","s","t","a","t","i","s","t","i","c","s"," ","o","f">>
CAREER_STATISTICS_OF == <<"c","a","r","e","e","r"," ","s","t","a","t","i","s","t","i","c","s"," ","o","f">>
STATS_OF == <<"s","t","a","t","s"," ","o","f">>
WHERE_WAS == <<"w","h","e","r","e"," ","w","a","s">>
BORN == <<"b","o","r","n">>
SACHIN_BIRTHPLACE == <<"s","a","c","h","i","n"," ","t","e","n","d","u","l","k","a","r"," ","b","i","r","t","h","p","l","a","c","e","?">>
BIRTHPLACE_OF_SACHIN == <<"b","i","r","t","h","p","l","a","c","e"," ","o","f"," ","s","a","c","h","i","n"," ","t","e","n","d","u","l","k","a","r","?">>
TELL_ME_ABOUT == <<"t","e","l","l"," ","m","e"," ","a","b","o","u","t"," ">>
ABOUT_SACHIN == <<"a","b","o","u","t"," ","s","a","c","h","i","n"," ","t","e","n","d","u","l","k","a","r">>
WHO_IS_SACHIN == <<"w","h","o"," ","i","s"," ","s","a","c","h","i","n"," ","t","e","n","d","u","l","k","a","r">>

QueryTeams ==
  <<"MATCH (p:Person)-[:PLAYED_FOR|:REPRESENTED|:CAPTAINED]->(t) ", "WHERE ">>
    \o _person_where_clause("p")
    \o <<" ", "RETURN DISTINCT t.name AS team ", "ORDER BY team ", "LIMIT $top_k">>

QueryRecords ==
  <<"MATCH (p:Person)-[:HOLDS_RECORD]->(r:Record) ", "WHERE ">>
    \o _person_where_clause("p")
    \o <<" ",
         "RETURN r.label AS record, r.value AS value, r.unit AS unit, r.year AS year ",
         "ORDER BY record ",
         "LIMIT $top_k">>

QueryDebut ==
  <<"MATCH (p:Person)-[:DEBUTED_IN]->(d:Record {type:'Debut'}) ", "WHERE ">>
    \o _person_where_clause("p")
    \o <<" ",
         "AND (($format IS NULL) OR toLower(d.format) = toLower($format)) ",
         "RETURN d.format AS format, d.year AS year, d.opponent AS opponent, d.location AS location ",
         "ORDER BY d.year ASC ",
         "LIMIT $top_k">>

QueryRetire ==
  <<"MATCH (p:Person)-[:RETIRED_IN]->(r:Record {type:'Retirement'}) ", "WHERE ">>
    \o _person_where_clause("p")
    \o <<" ",
         "AND (($format IS NULL) OR toLower(r.format) = toLower($format)) ",
         "RETURN r.format AS format, r.year AS year, r.opponent AS opponent, r.location AS location ",
         "ORDER BY r.year ASC ",
         "LIMIT $top_k">>

QueryStats ==
  <<"MATCH (p:Person)-[:FORMAT_STATS]->(s:Record {type:'Stats'}) ", "WHERE ">>
    \o _person_where_clause("p")
    \o <<" ",
         "AND (($format IS NULL) OR toLower(s.format) = toLower($format)) ",
         "RETURN s.format AS format, s.matches AS matches, s.runs AS runs, ",
         "s.hundreds AS hundreds, s.fifties AS fifties, s.average AS average ",
         "ORDER BY s.format ",
         "LIMIT $top_k">>

QueryBorn ==
  <<"MATCH (p:Person)-[:BORN_IN]->(c:City) ", "WHERE ">>
    \o _person_where_clause("p")
    \o <<" ",
         "OPTIONAL MATCH (c)-[:IN_COUNTRY]->(country:Country) ",
         "RETURN c.name AS city, country.name AS country ",
         "LIMIT $top_k">>

QueryAbout ==
  <<"MATCH (p:Person) ", "WHERE ">>
    \o _person_where_clause("p")
    \o <<" ",
         "OPTIONAL MATCH (p)-[:BORN_IN]->(city:City) ",
         "OPTIONAL MATCH (p)-[:FORMAT_STATS]->(s:Record {type:'Stats'}) ",
         "RETURN p.name AS name, p.full_name AS full_name, p.nickname AS nickname, ",
         "p.batting_style AS batting_style, p.bowling_style AS bowling_style, ",
         "p.birth_year AS birth_year, city.name AS birth_city, ",
         "collect({format:s.format, runs:s.runs, matches:s.matches, hundreds:s.hundreds, fifties:s.fifties, average:s.average}) AS formats ",
         "LIMIT 1">>

TeamsPred(q) ==
  \/ contains(q, WHAT_TEAMS_DID) /\ contains(q, SACHIN) /\ contains(q, PLAY_FOR)
  \/ strip(q) = TEAMS_PLAYED_FOR
RuleTeams(q, top_k) ==
  IF TeamsPred(q)
    THEN CypherQuery(QueryTeams, [person |-> SACHIN_TENDULKAR, top_k |-> top_k])
    ELSE NoMapping

RecordsPred(q) ==
  \/ contains(q, WHAT_RECORDS_DOES) /\ contains(q, SACHIN) /\ contains(q, HOLD)
  \/ strip(q) \in {SACHIN_RECORDS, RECORDS_OF_SACHIN}
RuleRecords(q, top_k) ==
  IF RecordsPred(q)
    THEN CypherQuery(QueryRecords, [person |-> SACHIN_TENDULKAR, top_k |-> top_k])
    ELSE NoMapping

\* Mutation: odi is looked for before test.
_extract_format_OdiFirst(text) ==
  IF contains(text, <<"o","d","i">>) THEN "ODI"
  ELSE IF contains(text, <<"t","e","s","t">>) THEN "Test"
  ELSE IF contains(text, <<"t","2","0","i">>) \/ contains(text, <<"t","2","0">>) THEN "T20I"
  ELSE IF contains(text, <<"i","p","l">>) THEN "IPL"
  ELSE Null

_extract_format(text) ==
  IF contains(text, <<"t","e","s","t">>) THEN "Test"
  ELSE IF contains(text, <<"o","d","i">>) THEN "ODI"
  ELSE IF contains(text, <<"t","2","0","i">>) \/ contains(text, <<"t","2","0">>) THEN "T20I"
  ELSE IF contains(text, <<"i","p","l">>) THEN "IPL"
  ELSE IF contains(text, <<"i","n","t","e","r","n","a","t","i","o","n","a","l">>) THEN Null
  ELSE Null

\* Mutation: the limit is the default, not the argument.
FormatParams_DefaultLimit(q, top_k) ==
  [person |-> SACHIN_TENDULKAR, format |-> _extract_format(q), top_k |-> DefaultTopK]

FormatParams(q, top_k) ==
  [person |-> SACHIN_TENDULKAR, format |-> _extract_format(q), top_k |-> top_k]

DebutPred(q) == contains(q, WHEN_DID) /\ contains(q, SACHIN) /\ contains(q, DEBUT)
RuleDebut(q, top_k) ==
  IF DebutPred(q) THEN CypherQuery(QueryDebut, FormatParams(q, top_k)) ELSE NoMapping

RetirePred(q) == contains(q, WHEN_DID) /\ contains(q, SACHIN) /\ contains(q, RETIRE)
RuleRetire(q, top_k) ==
  IF RetirePred(q) THEN CypherQuery(QueryRetire, FormatParams(q, top_k)) ELSE NoMapping

StatsPred(q) ==
  /\ \/ contains(q, WHAT_ARE_THE_CAREER_STATISTICS_OF)
     \/ contains(q, CAREER_STATISTICS_OF)
     \/ contains(q, STATS_OF)
  /\ contains(q, SACHIN)
RuleStats(q, top_k) ==
  IF StatsPred(q) THEN CypherQuery(QueryStats, FormatParams(q, top_k)) ELSE NoMapping

BornPred(q) ==
  \/ contains(q, WHERE_WAS) /\ contains(q, SACHIN) /\ contains(q, BORN)
  \/ strip(q) \in {SACHIN_BIRTHPLACE, BIRTHPLACE_OF_SACHIN}
RuleBorn(q, top_k) ==
  IF BornPred(q)
    THEN CypherQuery(QueryBorn, [person |-> SACHIN_TENDULKAR, top_k |-> top_k])
    ELSE NoMapping

AboutPred(q) ==
  \/ startswith(q, TELL_ME_ABOUT) /\ contains(q, SACHIN)
  \/ strip(q) \in {ABOUT_SACHIN, WHO_IS_SACHIN}
RuleAbout(q) ==
  IF AboutPred(q)
    THEN CypherQuery(QueryAbout, [person |-> SACHIN_TENDULKAR])
    ELSE NoMapping

-----------------------------------------------------------------------------
(* RuleBasedNLPMappings.map_question *)

\* if not question: return None
IsFalsy(question) == question = None \/ question = <<>>

\* Mutation: the question is stripped and not lower-cased.
Normalize_NoLower(question) == strip(question)

\* q = question.strip().lower()
Normalize(question) == lower(strip(question))

\* Mutation: the retire block is placed before the debut block.
RuleBlocks_RetireBeforeDebut(q, top_k, ord) ==
  <<RuleWorksAt(q, top_k),
    RuleLocated(q, top_k, ord),
    RuleListPeople(q, top_k),
    RuleAffiliated(q, top_k, ord),
    RuleCoach(q, top_k, ord),
    RuleWhoIs(q, top_k, ord),
    RuleTeams(q, top_k),
    RuleRecords(q, top_k),
    RuleRetire(q, top_k),
    RuleDebut(q, top_k),
    RuleStats(q, top_k),
    RuleBorn(q, top_k),
    RuleAbout(q)>>

\* The rule blocks in the order the code runs them; a block that does not
\* return falls through to the next one.
RuleBlocks(q, top_k, ord) ==
  <<RuleWorksAt(q, top_k),
    RuleLocated(q, top_k, ord),
    RuleListPeople(q, top_k),
    RuleAffiliated(q, top_k, ord),
    RuleCoach(q, top_k, ord),
    RuleWhoIs(q, top_k, ord),
    RuleTeams(q, top_k),
    RuleRecords(q, top_k),
    RuleDebut(q, top_k),
    RuleRetire(q, top_k),
    RuleStats(q, top_k),
    RuleBorn(q, top_k),
    RuleAbout(q)>>

\* Mutation: a question no block matched is looked up as a person name.
ApplyRules_FallbackLookup(q, top_k, ord) ==
  LET blocks == RuleBlocks(q, top_k, ord)
      hits == {i \in 1..Len(blocks) : blocks[i] # NoMapping}
  IN IF hits = {} THEN CypherQuery(QueryWhoIs, [person |-> q, top_k |-> top_k])
     ELSE blocks[CHOOSE i \in hits : \A j \in hits : i <= j]

\* The first block that returns, or the final `return None`.
ApplyRules(q, top_k, ord) ==
  LET blocks == RuleBlocks(q, top_k, ord)
      hits == {i \in 1..Len(blocks) : blocks[i] # NoMapping}
  IN IF hits = {} THEN NoMapping
     ELSE blocks[CHOOSE i \in hits : \A j \in hits : i <= j]

map_question(question, top_k, ord) ==
  IF IsFalsy(question) THEN NoMapping
  ELSE ApplyRules(Normalize(question), top_k, ord)

-----------------------------------------------------------------------------
(* The arguments map_question is applied to *)

TopKs == {MinTopK, DefaultTopK, MaxTopK}

upperChar(c) ==
  IF \E i \in 1..Len(Lowercase) : Lowercase[i] = c
    THEN Uppercase[CHOOSE i \in 1..Len(Lowercase) : Lowercase[i] = c]
    ELSE c

Shout(s) == [i \in 1..Len(s) |-> upperChar(s[i])]

Capitalize(s) == IF s = <<>> THEN s ELSE <<upperChar(Head(s))>> \o Tail(s)

\* The spellings of one question that differ in letter case and in leading
\* and trailing whitespace only.
Variants(b) == {b, Shout(b), <<" ">> \o Capitalize(b) \o <<" ", "\t">>}

Orgs == {<<>>, <<"c","o","n","t","o","s","o">>, <<"a","c","m","e"," ","i","n","c",".">>}

OrgTails == {<<>>, <<"?">>, <<" ","?">>, <<"?","?">>}

People ==
  {<<"a","l","i","c","e">>, <<"s","."," ","t","e","n","d","u","l","k","a","r">>, <<"s"," ","t","e","n","d","u","l","k","a","r">>, <<"r","."," ","t","e","n","d","u","l","k","a","r">>,
   <<"s","a","c","h","i","n"," ","t","e","n","d","u","l","k","a","r">>, <<"a","."," ","b",".">>, <<".">>, <<"?">>}

PersonTails == {<<>>, <<"?">>, <<" ","?","?">>}

Formats ==
  {<<>>, <<" ","i","n"," ","o","d","i">>, <<" ","i","n"," ","t","e","s","t">>, <<" ","i","n"," ","o","d","i"," ","a","n","d"," ","t","e","s","t">>, <<" ","i","n"," ","t","2","0">>, <<" ","i","n"," ","t","2","0","i">>,
   <<" ","i","n"," ","t","h","e"," ","i","p","l">>, <<" ","i","n"," ","i","n","t","e","r","n","a","t","i","o","n","a","l"," ","c","r","i","c","k","e","t">>, <<" ","i","n"," ","i","p","l"," ","a","n","d"," ","o","d","i">>,
   <<" ","i","n"," ","i","n","t","e","r","n","a","t","i","o","n","a","l"," ","t","2","0">>}

BaseQuestions ==
  {WHO_WORKS_AT \o o \o t : o \in Orgs, t \in OrgTails}
    \cup {LIST_PEOPLE_IN \o o \o t : o \in Orgs, t \in OrgTails}
    \cup {WHERE_IS \o p \o LOCATED : p \in People \cup {<<>>, <<" ">>}}
    \cup {WHAT_ORGANIZATIONS_IS \o p \o AFFILIATED_WITH : p \in People \cup {<<>>, <<" ">>}}
    \cup {<<"w","h","e","r","e"," ","i","s"," ","l","o","c","a","t","e","d","?">>, <<"w","h","a","t"," ","o","r","g","a","n","i","z","a","t","i","o","n","s"," ","i","s"," ","a","f","f","i","l","i","a","t","e","d"," ","w","i","t","h","?">>,
          <<"w","h","e","r","e"," ","i","s"," ","a","l","i","c","e"," ","l","o","c","a","t","e","d">>, <<"w","h","e","r","e"," ","i","s"," ","w","h","o"," ","w","o","r","k","s"," ","a","t"," ","c","o","n","t","o","s","o"," ","l","o","c","a","t","e","d","?">>}
    \cup {m \o p \o t : m \in {WHO_IS_THE_COACH_OF, WHO_COACHED, WHO_IS},
                        p \in People \cup {<<>>}, t \in PersonTails}
    \cup {<<"w","h","o"," ","i","s"," ","t","h","e"," ","c","o","a","c","h"," ","o","f"," ","w","h","o"," ","c","o","a","c","h","e","d"," ","a","l","i","c","e","?">>,
          <<"w","h","o"," ","c","o","a","c","h","e","d"," ","w","h","o"," ","i","s"," ","t","h","e"," ","c","o","a","c","h"," ","o","f"," ","a","l","i","c","e","?">>,
          <<"w","h","o"," ","i","s"," ","t","h","e"," ","c","o","a","c","h"," ","o","f"," ","w","h","o"," ","c","o","a","c","h","e","d"," ","?">>,
          <<"w","h","o"," ","i","s"," ","t","h","e"," ","c","o","a","c","h"," ","o","f">>, <<"w","h","o"," ","i","s">>, <<"w","h","o"," ","w","o","r","k","s"," ","a","t">>, <<"w","h","o">>,
          <<"w","h","o"," ","i","s"," ","s","a","c","h","i","n"," ","t","e","n","d","u","l","k","a","r"," ","a","n","d"," ","w","h","e","n"," ","d","i","d"," ","s","a","c","h","i","n"," ","t","e","n","d","u","l","k","a","r"," ","d","e","b","u","t","?">>,
          <<"w","h","o"," ","w","o","r","k","s"," ","a","t"," ","m","r","f"," ","w","h","e","n"," ","d","i","d"," ","s","a","c","h","i","n"," ","t","e","n","d","u","l","k","a","r"," ","r","e","t","i","r","e","?">>,
          <<"l","i","s","t"," ","p","e","o","p","l","e"," ","i","n"," ","s","t","a","t","s"," ","o","f"," ","s","a","c","h","i","n"," ","t","e","n","d","u","l","k","a","r">>}
    \cup {<<"w","h","a","t"," ","t","e","a","m","s"," ","d","i","d"," ","s","a","c","h","i","n"," ","t","e","n","d","u","l","k","a","r"," ","p","l","a","y"," ","f","o","r","?">>,
          <<"t","e","a","m","s"," ","s","a","c","h","i","n"," ","t","e","n","d","u","l","k","a","r"," ","p","l","a","y","e","d"," ","f","o","r","?">>,
          <<"t","e","a","m","s"," ","s","a","c","h","i","n"," ","t","e","n","d","u","l","k","a","r"," ","p","l","a","y","e","d"," ","f","o","r">>,
          <<"w","h","a","t"," ","t","e","a","m","s"," ","d","i","d"," ","s","a","c","h","i","n"," ","t","e","n","d","u","l","k","a","r"," ","p","l","a","y"," ","f","o","r"," ","a","n","d"," ","w","h","a","t"," ","r","e","c","o","r","d","s"," ","d","o","e","s"," ","s","a","c","h","i","n"," ","t","e","n","d","u","l","k","a","r"," ","h","o","l","d","?">>,
          <<"w","h","a","t"," ","r","e","c","o","r","d","s"," ","d","o","e","s"," ","s","a","c","h","i","n"," ","t","e","n","d","u","l","k","a","r"," ","h","o","l","d","?">>,
          <<"s","a","c","h","i","n"," ","t","e","n","d","u","l","k","a","r"," ","r","e","c","o","r","d","s","?">>, <<"r","e","c","o","r","d","s"," ","o","f"," ","s","a","c","h","i","n"," ","t","e","n","d","u","l","k","a","r","?">>,
          <<"w","h","a","t"," ","r","e","c","o","r","d","s"," ","d","o","e","s"," ","s","a","c","h","i","n"," ","t","e","n","d","u","l","k","a","r"," ","h","o","l","d"," ","s","i","n","c","e"," ","w","h","e","n"," ","d","i","d"," ","h","e"," ","d","e","b","u","t","?">>,
          <<"w","h","e","r","e"," ","w","a","s"," ","s","a","c","h","i","n"," ","t","e","n","d","u","l","k","a","r"," ","b","o","r","n","?">>, <<"s","a","c","h","i","n"," ","t","e","n","d","u","l","k","a","r"," ","b","i","r","t","h","p","l","a","c","e","?">>,
          <<"b","i","r","t","h","p","l","a","c","e"," ","o","f"," ","s","a","c","h","i","n"," ","t","e","n","d","u","l","k","a","r","?">>, <<"w","h","e","r","e"," ","w","a","s"," ","a","l","i","c","e"," ","b","o","r","n","?">>,
          <<"s","t","a","t","s"," ","o","f"," ","s","a","c","h","i","n"," ","t","e","n","d","u","l","k","a","r",":"," ","w","h","e","r","e"," ","w","a","s"," ","h","e"," ","b","o","r","n","?">>,
          <<"t","e","l","l"," ","m","e"," ","a","b","o","u","t"," ","s","a","c","h","i","n"," ","t","e","n","d","u","l","k","a","r">>, <<"a","b","o","u","t"," ","s","a","c","h","i","n"," ","t","e","n","d","u","l","k","a","r">>,
          <<"t","e","l","l"," ","m","e"," ","a","b","o","u","t"," ","a","l","i","c","e">>, <<"t","e","l","l"," ","m","e"," ","a","b","o","u","t"," ","w","h","e","r","e"," ","w","a","s"," ","s","a","c","h","i","n"," ","t","e","n","d","u","l","k","a","r"," ","b","o","r","n">>,
          <<"t","e","l","l"," ","m","e"," ","a","b","o","u","t"," ","s","a","c","h","i","n"," ","t","e","n","d","u","l","k","a","r"," ","s","t","a","t","s"," ","o","f"," ","o","d","i">>,
          <<"b","a","n","a","n","a","?">>, <<"w","h","e","n"," ","d","i","d"," ","a","l","i","c","e"," ","d","e","b","u","t","?">>}
    \cup {<<"w","h","e","n"," ","d","i","d"," ","s","a","c","h","i","n"," ","t","e","n","d","u","l","k","a","r"," ">> \o v \o f \o <<"?">> :
            v \in {DEBUT, RETIRE, <<"d","e","b","u","t"," ","a","n","d"," ","r","e","t","i","r","e">>, <<"r","e","t","i","r","e"," ","a","f","t","e","r"," ","h","i","s"," ","d","e","b","u","t">>},
            f \in Formats}
    \cup {s \o <<" ","s","a","c","h","i","n"," ","t","e","n","d","u","l","k","a","r">> \o f \o <<"?">> :
            s \in {WHAT_ARE_THE_CAREER_STATISTICS_OF, CAREER_STATISTICS_OF, STATS_OF},
            f \in Formats}

\* ask, services.py lines 39-45: the examples the no-match payload offers.
SUPPORTED_EXAMPLES ==
  <<<<"W","h","o"," ","w","o","r","k","s"," ","a","t"," ","C","o","n","t","o","s","o","?">>, <<"W","h","e","r","e"," ","i","s"," ","A","l","i","c","e"," ","l","o","c","a","t","e","d","?">>,
    <<"L","i","s","t"," ","p","e","o","p","l","e"," ","i","n"," ","C","o","n","t","o","s","o">>, <<"W","h","a","t"," ","o","r","g","a","n","i","z","a","t","i","o","n","s"," ","i","s"," ","A","l","i","c","e"," ","a","f","f","i","l","i","a","t","e","d"," ","w","i","t","h","?">>,
    <<"W","h","o"," ","i","s"," ","A","l","i","c","e","?">>>>

Questions ==
  UNION {Variants(b) : b \in BaseQuestions}
    \cup {None, <<>>, <<" ">>, <<" ","\t"," ">>}
    \cup {SUPPORTED_EXAMPLES[k] : k \in DOMAIN SUPPORTED_EXAMPLES}

\* The names _normalize_person_input is applied to directly.
PersonInputs ==
  {lead \o init \o dot \o sep \o surname \o trail :
     lead \in {<<>>, <<" ">>},
     init \in {<<"S">>, <<"S","a">>, <<".">>},
     dot \in {<<>>, <<".">>},
     sep \in {<<>>, <<" ">>},
     surname \in {<<"T","e","n","d","u","l","k","a","r">>, <<"T","E","N","D","U","L","K","A","R">>, <<"S","m","i","t","h">>, <<"T","e","n","d","u","l","k","a","r"," ","J","r">>},
     trail \in {<<>>, <<" ",".">>}}
    \cup {None, <<>>, <<" ">>, <<"B","o","b">>, <<"B","o","b"," ",".">>, <<"."," ","B","o","b">>, <<".",".",".">>, <<"s","\t","t","e","n","d","u","l","k","a","r">>}

-----------------------------------------------------------------------------
(* _Neo4jService: the environment, the lazily created driver *)

\* os.getenv of a variable that is not set
Unset == "<unset>"

EnvComplete ==
  [NEO4J_URI |-> "bolt://localhost:7687", NEO4J_USER |-> "neo4j",
   NEO4J_PASSWORD |-> "secret", NEO4J_DATABASE |-> "graph"]

\* A value of NEO4J_URI that GraphDatabase.driver rejects (no scheme).
BadUri == "localhost:7687"

Envs ==
  {EnvComplete,
   [EnvComplete EXCEPT !.NEO4J_URI = Unset],
   [EnvComplete EXCEPT !.NEO4J_PASSWORD = ""],
   [EnvComplete EXCEPT !.NEO4J_URI = BadUri],
   [EnvComplete EXCEPT !.NEO4J_DATABASE = Unset],
   [EnvComplete EXCEPT !.NEO4J_DATABASE = ""]}

_get_env(e) ==
  [uri |-> e.NEO4J_URI,
   user |-> e.NEO4J_USER,
   password |-> e.NEO4J_PASSWORD,
   database |-> IF e.NEO4J_DATABASE = Unset THEN "neo4j" ELSE e.NEO4J_DATABASE]

\* Mutation: only the URI is looked at.
Missing_UriOnly(e) ==
  {k \in {"uri"} : _get_env(e)[k] = Unset \/ _get_env(e)[k] = ""}

Missing(e) ==
  {k \in {"uri", "user", "password"} : _get_env(e)[k] = Unset \/ _get_env(e)[k] = ""}

\* GraphDatabase.driver(uri, auth) raises on a URI it cannot parse; it does
\* not connect, so a well-formed URI gives a driver.
DriverRaises(e) == _get_env(e).uri = BadUri

\* run_cypher, line 94: the database the session is opened on.
SessionDatabase(e) ==
  IF _get_env(e).database = "" THEN "neo4j" ELSE _get_env(e).database

NoDriver == 0

NoError == "<None>"

ConfigMissing ==
  "Neo4j configuration missing. Please set environment variables: NEO4J_URI, NEO4J_USER, NEO4J_PASSWORD."

DriverInitFailed == "Unexpected error initializing Neo4j driver"

QueryFailed == "Neo4j query failed"

\* run_cypher, line 97 reached without a driver: the AssertionError is
\* wrapped at line 128.
AssertionFailed == "Unexpected error running Cypher"

\* Mutation: the bag is submitted as it is.
NormalizeParams_AsGiven(params) == params

\* run_cypher's normalization of person / persons before session.run
NormalizeParams(params) ==
  LET keys == DOMAIN params
      withPerson ==
        IF "persons" \in keys /\ "person" \notin keys /\ params.persons # <<>>
          THEN [k \in keys \cup {"person"} |->
                  IF k = "person" THEN params.persons[1] ELSE params[k]]
          ELSE params
      keys2 == DOMAIN withPerson
  IN IF "person" \in keys2 /\ "persons" \notin keys2 /\ withPerson.person # <<>>
       THEN [k \in keys2 \cup {"persons"} |->
               IF k = "persons" THEN <<withPerson.person>> ELSE withPerson[k]]
       ELSE withPerson

-----------------------------------------------------------------------------
(* QuestionAnswerService.ask *)

NumCallers == 2

Callers == 1..NumCallers

-----------------------------------------------------------------------------
(* AskRequestSerializer and the ask view *)

\* CharField(max_length=500)
MaxLength == 500

Repeat(ch, n) == [i \in 1..n |-> ch]

\* Mutation: a question of whitespace only is let through.
QuestionErrors_NoBlankCheck(b) ==
  IF "question" \notin DOMAIN b THEN {"required"}
  ELSE IF Len(strip(b.question)) > MaxLength THEN {"max_length"}
  ELSE {}

\* CharField(allow_blank=False, trim_whitespace=True, max_length=500): a
\* missing field is required, a value that is blank once trimmed is refused,
\* and the length validator runs on the trimmed value.
QuestionErrors(b) ==
  IF "question" \notin DOMAIN b THEN {"required"}
  ELSE IF strip(b.question) = <<>> THEN {"blank"}
  ELSE IF Len(strip(b.question)) > MaxLength THEN {"max_length"}
  ELSE {}

\* IntegerField(required=False, min_value=1, max_value=100, default=10)
TopKErrors(b) ==
  IF "top_k" \notin DOMAIN b THEN {}
  ELSE IF b.top_k < MinTopK THEN {"min_value"}
  ELSE IF b.top_k > MaxTopK THEN {"max_value"}
  ELSE {}

is_valid(b) == QuestionErrors(b) = {} /\ TopKErrors(b) = {}

errors(b) == [question |-> QuestionErrors(b), top_k |-> TopKErrors(b)]

validated_data(b) ==
  [question |-> strip(b.question),
   top_k |-> IF "top_k" \in DOMAIN b THEN b.top_k ELSE DefaultTopK]

\* The request bodies posted to the ask view in the system specification.
SysBodies ==
  {[question |-> <<"W","h","o"," ","w","o","r","k","s"," ","a","t"," ","C","o","n","t","o","s","o","?">>, top_k |-> MinTopK],
   [question |-> <<" ","W","h","e","r","e"," ","i","s"," ","A","."," ","B","."," ","l","o","c","a","t","e","d","?"," ">>],
   [question |-> <<"W","h","o"," ","i","s"," ","A","l","i","c","e","?">>, top_k |-> MaxTopK],
   [question |-> <<"A","b","o","u","t"," ","S","a","c","h","i","n"," ","T","e","n","d","u","l","k","a","r">>, top_k |-> DefaultTopK],
   [question |-> <<"B","a","n","a","n","a","?">>],
   [question |-> <<" ">> \o Repeat("a", MaxLength)],
   [question |-> Repeat("a", MaxLength + 1)],
   [question |-> <<" "," "," ">>, top_k |-> DefaultTopK],
   [question |-> <<"W","h","o"," ","w","o","r","k","s"," ","a","t"," ","C","o","n","t","o","s","o","?">>, top_k |-> MinTopK - 1],
   [question |-> <<"W","h","o"," ","w","o","r","k","s"," ","a","t"," ","C","o","n","t","o","s","o","?">>, top_k |-> MaxTopK + 1],
   [top_k |-> DefaultTopK]}

\* The serializer applied to each body.
Serialized ==
  [b \in SysBodies |->
     IF is_valid(b)
       THEN [valid |-> TRUE, data |-> validated_data(b)]
       ELSE [valid |-> FALSE, errors |-> errors(b)]]

\* The arguments qa_service.ask receives from the view.
SysRequests == {Serialized[b].data : b \in {x \in SysBodies : Serialized[x].valid}}

\* The environments the system is started in: complete, without a URI, and
\* with a URI the driver rejects.
SysEnvs ==
  {EnvComplete,
   [EnvComplete EXCEPT !.NEO4J_URI = Unset],
   [EnvComplete EXCEPT !.NEO4J_URI = BadUri]}

NO_MAPPING_NOTE ==
  "No mapping found. Try a supported pattern like 'Who works at OrgName?'"

THEME ==
  [name |-> "Ocean Professional", primary |-> "#2563EB",
   secondary |-> "#F59E0B", success |-> "#F59E0B", error |-> "#EF4444"]

\* Mutation: no match is raised as a failure.
NoMatchPayload_Raises(question) ==
  [kind |-> "raise", error |-> "ValueError", message |-> NO_MAPPING_NOTE]

NoMatchPayload(question) ==
  [kind |-> "return",
   question |-> question,
   cypher |-> <<>>,
   parameters |-> <<>>,
   results |-> <<>>,
   meta |-> [note |-> NO_MAPPING_NOTE, supported_examples |-> SUPPORTED_EXAMPLES]]

MatchPayload(question, mapping, rows) ==
  [kind |-> "return",
   question |-> question,
   cypher |-> mapping.query,
   parameters |-> mapping.parameters,
   results |-> rows,
   meta |-> [theme |-> THEME]]

Raised(message) == [kind |-> "raise", error |-> "ValueError", message |-> message]

\* AskResponseSerializer.from_payload
from_payload(payload) ==
  [question |-> payload.question,
   cypher |-> payload.cypher,
   parameters |-> payload.parameters,
   results |-> payload.results,
   meta |-> payload.meta]

\* The ask view, lines 99 and 104-110: the HTTP response.
BadRequest(errs) == [status |-> 400, errors |-> errs]

HttpResponse(outcome) ==
  IF outcome.kind = "raise"
    THEN [status |-> 500, detail |-> outcome.message]
    ELSE [status |-> 200, payload |-> from_payload(outcome)]

NoHttp == [status |-> 0]

NoBody == [none |-> TRUE]

NoFrame == [question |-> None, top_k |-> DefaultTopK, q |-> None, mapping |-> NoMapping]

NoResponse == [kind |-> "none"]

\* Mutation: the locals are attributes of the shared mapper.
FrameOf_Shared(c) == 1

\* The frame that holds the locals of caller c's invocation.
FrameOf(c) == c

NoRequest == [question |-> None, top_k |-> DefaultTopK]

NotSubmitted == [submitted |-> FALSE]

NotCalled == [called |-> FALSE]

NoOutcome == [kind |-> "none"]

sysVars == <<pc, body, request, frame, response, http, ranCypher, cypherOut,
             submitted, env, driver, config_err, driversMade>>

mapVars == <<mapIn, mapOut>>

aliasVars == <<aliasIn, aliasOut>>

svcVars == <<svcOut, svcCalls>>

SysIdle ==
  /\ pc = [c \in Callers |-> "idle"]
  /\ body = [c \in Callers |-> NoBody]
  /\ request = [c \in Callers |-> NoRequest]
  /\ frame = [c \in Callers |-> NoFrame]
  /\ response = [c \in Callers |-> NoResponse]
  /\ http = [c \in Callers |-> NoHttp]
  /\ ranCypher = [c \in Callers |-> <<>>]
  /\ cypherOut = [c \in Callers |-> NoOutcome]
  /\ submitted = [c \in Callers |-> NotSubmitted]
  /\ driver = NoDriver
  /\ config_err = NoError
  /\ driversMade = 0

MapIdle == mapIn = NoRequest /\ mapOut = NotCalled

AliasIdle == aliasIn = None /\ aliasOut = NotCalled

SvcIdle == svcOut = [op |-> "none"] /\ svcCalls = 0

\* The ask view, lines 97-103: the body is validated; an invalid one is
\* answered 400, a valid one is passed to qa_service.ask, whose line 30 calls
\* map_question; the arguments become locals of the invocation.
Ask(c) ==
  /\ pc[c] = "idle"
  /\ \E b \in SysBodies :
       LET serializer == Serialized[b] IN
       /\ body' = [body EXCEPT ![c] = b]
       /\ IF serializer.valid
            THEN /\ request' = [request EXCEPT ![c] = serializer.data]
                 /\ frame' = [frame EXCEPT ![FrameOf(c)] =
                                [question |-> serializer.data.question,
                                 top_k |-> serializer.data.top_k,
                                 q |-> None, mapping |-> NoMapping]]
                 /\ pc' = [pc EXCEPT ![c] = "map"]
                 /\ UNCHANGED http
            ELSE /\ http' = [http EXCEPT ![c] = BadRequest(serializer.errors)]
                 /\ pc' = [pc EXCEPT ![c] = "done"]
                 /\ UNCHANGED <<request, frame>>
  /\ UNCHANGED <<response, ranCypher, cypherOut, submitted, env, driver,
                 config_err, driversMade, mapVars, aliasVars, svcVars>>

\* map_question, lines 172-175: the early return and the normalization.
MapNormalize(c) ==
  /\ pc[c] = "map"
  /\ LET f == frame[FrameOf(c)] IN
     IF IsFalsy(f.question)
       THEN /\ frame' = [frame EXCEPT ![FrameOf(c)].mapping = NoMapping]
            /\ pc' = [pc EXCEPT ![c] = "mapped"]
       ELSE /\ frame' = [frame EXCEPT ![FrameOf(c)].q = Normalize(f.question)]
            /\ pc' = [pc EXCEPT ![c] = "rules"]
  /\ UNCHANGED <<body, request, response, http, ranCypher, cypherOut,
                 submitted, env, driver, config_err, driversMade, mapVars,
                 aliasVars, svcVars>>

\* The rule blocks, lines 182-428, applied to the normalized questions and
\* the limits of the system specification, under each iteration order of
\* the alias set.
SysRuleResults ==
  [q \in {Normalize(r.question) : r \in SysRequests},
   k \in {r.top_k : r \in SysRequests} |->
     {ApplyRules(q, k, ord) : ord \in Orders}]

\* map_question, lines 182-428: the rule blocks.
MapRules(c) ==
  /\ pc[c] = "rules"
  /\ \E m \in SysRuleResults[frame[FrameOf(c)].q, frame[FrameOf(c)].top_k] :
       frame' = [frame EXCEPT ![FrameOf(c)].mapping = m]
  /\ pc' = [pc EXCEPT ![c] = "mapped"]
  /\ UNCHANGED <<body, request, response, http, ranCypher, cypherOut,
                 submitted, env, driver, config_err, driversMade, mapVars,
                 aliasVars, svcVars>>

\* Mutation: a failure of the executor is answered as an empty result.
AskResult_Swallow(question, mapping, outcome) ==
  MatchPayload(question, mapping,
               IF outcome.kind = "raise" THEN <<>> ELSE outcome.rows)

\* ask, lines 49-64: what ask does with the outcome of run_cypher.
AskResult(question, mapping, outcome) ==
  IF outcome.kind = "raise"
    THEN outcome
    ELSE MatchPayload(question, mapping, outcome.rows)

\* ask, lines 31-49: the no-match payload, which the view answers 200, or
\* the call of run_cypher.
AskDispatch(c) ==
  /\ pc[c] = "mapped"
  /\ LET f == frame[FrameOf(c)] IN
     IF f.mapping = NoMapping
       THEN /\ response' = [response EXCEPT ![c] = NoMatchPayload(f.question)]
            /\ http' = [http EXCEPT ![c] = HttpResponse(NoMatchPayload(f.question))]
            /\ pc' = [pc EXCEPT ![c] = "done"]
            /\ UNCHANGED ranCypher
       ELSE /\ ranCypher' = [ranCypher EXCEPT ![c] =
                                Append(@, [query |-> f.mapping.query,
                                           parameters |-> f.mapping.parameters])]
            /\ pc' = [pc EXCEPT ![c] = "ensure"]
            /\ UNCHANGED <<response, http>>
  /\ UNCHANGED <<body, request, frame, cypherOut, submitted, env, driver,
                 config_err, driversMade, mapVars, aliasVars, svcVars>>

\* _ensure_driver, lines 49-59: the early return and the configuration check.
EnsureCheck(c) ==
  /\ pc[c] = "ensure"
  /\ IF driver # NoDriver \/ config_err # NoError
       THEN /\ pc' = [pc EXCEPT ![c] = "run"]
            /\ UNCHANGED config_err
       ELSE IF Missing(env) # {}
         THEN /\ config_err' = ConfigMissing
              /\ pc' = [pc EXCEPT ![c] = "run"]
         ELSE /\ pc' = [pc EXCEPT ![c] = "create"]
              /\ UNCHANGED config_err
  /\ UNCHANGED <<body, request, frame, response, http, ranCypher, cypherOut,
                 submitted, env, driver, driversMade, mapVars, aliasVars,
                 svcVars>>

\* _ensure_driver, lines 61-68: GraphDatabase.driver returns or raises.
EnsureCreate(c) ==
  /\ pc[c] = "create"
  /\ \/ /\ ~DriverRaises(env)
        /\ driversMade' = driversMade + 1
        /\ driver' = driversMade + 1
        /\ UNCHANGED config_err
     \/ /\ DriverRaises(env)
        /\ config_err' = DriverInitFailed
        /\ UNCHANGED <<driver, driversMade>>
  /\ pc' = [pc EXCEPT ![c] = "run"]
  /\ UNCHANGED <<body, request, frame, response, http, ranCypher, cypherOut,
                 submitted, env, mapVars, aliasVars, svcVars>>

\* What the session may do: fail to open, raise in session.run, or return rows.
SessionOutcomes ==
  {[opened |-> FALSE, raises |-> TRUE, rows |-> <<>>],
   [opened |-> TRUE, raises |-> TRUE, rows |-> <<>>],
   [opened |-> TRUE, raises |-> FALSE, rows |-> <<"row">>]}

\* run_cypher, lines 98-128: what reaches the session, on which driver and
\* database.
Submission(query, parameters, d, e, out) ==
  IF out.opened
    THEN [submitted |-> TRUE, query |-> query,
          parameters |-> NormalizeParams(parameters),
          database |-> SessionDatabase(e), driver |-> d]
    ELSE NotSubmitted

\* run_cypher, lines 120-128: the rows, or the error wrapped as ValueError.
SessionResult(out) ==
  IF out.raises THEN Raised(QueryFailed)
  ELSE [kind |-> "return", rows |-> out.rows]

\* run_cypher, lines 86-128, the return of ask, lines 50-64, and the
\* response of the view, lines 104-110.
RunCypher(c) ==
  /\ pc[c] = "run"
  /\ LET f == frame[FrameOf(c)] IN
     \E out \in SessionOutcomes :
       LET reached == config_err = NoError /\ f.mapping.query # <<>>
                        /\ driver # NoDriver
           result ==
             IF config_err # NoError THEN Raised(config_err)
             ELSE IF f.mapping.query = <<>> THEN [kind |-> "return", rows |-> <<>>]
             ELSE IF driver = NoDriver THEN Raised(AssertionFailed)
             ELSE SessionResult(out)
       IN /\ ~reached => out = CHOOSE o \in SessionOutcomes : ~o.opened
          /\ submitted' = [submitted EXCEPT ![c] =
                IF reached
                  THEN Submission(f.mapping.query, f.mapping.parameters, driver, env, out)
                  ELSE NotSubmitted]
          /\ cypherOut' = [cypherOut EXCEPT ![c] = result]
          /\ response' = [response EXCEPT ![c] = AskResult(f.question, f.mapping, result)]
          /\ http' = [http EXCEPT ![c] =
                HttpResponse(AskResult(f.question, f.mapping, result))]
  /\ pc' = [pc EXCEPT ![c] = "done"]
  /\ UNCHANGED <<body, request, frame, ranCypher, env, driver, config_err,
                 driversMade, mapVars, aliasVars, svcVars>>

Init == SysIdle /\ env \in SysEnvs /\ MapIdle /\ AliasIdle /\ SvcIdle

Next ==
  \E c \in Callers :
    \/ Ask(c)
    \/ MapNormalize(c)
    \/ MapRules(c)
    \/ AskDispatch(c)
    \/ EnsureCheck(c)
    \/ EnsureCreate(c)
    \/ RunCypher(c)

Spec == Init /\ [][Next]_vars

-----------------------------------------------------------------------------
(* map_question applied once to each question *)

CallMapQuestion ==
  /\ mapOut = NotCalled
  /\ \E ord \in Orders :
       mapOut' = [called |-> TRUE,
                  value |-> map_question(mapIn.question, mapIn.top_k, ord)]
  /\ UNCHANGED <<mapIn, sysVars, aliasVars, svcVars>>

InitMap ==
  /\ SysIdle /\ env = EnvComplete /\ AliasIdle /\ SvcIdle
  /\ mapIn \in [question : Questions, top_k : TopKs]
  /\ mapOut = NotCalled

NextMap == CallMapQuestion

SpecMap == InitMap /\ [][NextMap]_vars

-----------------------------------------------------------------------------
(* _normalize_person_input applied once to each name *)

CallNormalize ==
  /\ aliasOut = NotCalled
  /\ \E ord \in Orders :
       aliasOut' = [called |-> TRUE, value |-> _normalize_person_input(aliasIn, ord)]
  /\ UNCHANGED <<aliasIn, sysVars, mapVars, svcVars>>

InitAlias ==
  /\ SysIdle /\ env = EnvComplete /\ MapIdle /\ SvcIdle
  /\ aliasIn \in PersonInputs
  /\ aliasOut = NotCalled

NextAlias == CallNormalize

SpecAlias == InitAlias /\ [][NextAlias]_vars


-----------------------------------------------------------------------------
(* One _Neo4jService called sequentially: run_cypher, close, and the        *)
(* environment changed between the calls                                    *)

MaxSvcCalls == 4

\* The queries of the calls: an empty one, and the one of the health view.
SvcQueries == {<<>>, <<"R","E","T","U","R","N"," ","1"," ","A","S"," ","o","k">>}

\* Mutation: a recorded error does not stop a new attempt.
_ensure_driver_Retry(d, err, made, e) ==
  IF d # NoDriver
    THEN [driver |-> d, config_err |-> err, driversMade |-> made]
  ELSE IF Missing(e) # {}
    THEN [driver |-> d, config_err |-> ConfigMissing, driversMade |-> made]
  ELSE IF DriverRaises(e)
    THEN [driver |-> d, config_err |-> DriverInitFailed, driversMade |-> made]
  ELSE [driver |-> made + 1, config_err |-> NoError, driversMade |-> made + 1]

\* _ensure_driver, lines 49-68, run without interruption.
_ensure_driver(d, err, made, e) ==
  IF d # NoDriver \/ err # NoError
    THEN [driver |-> d, config_err |-> err, driversMade |-> made]
  ELSE IF Missing(e) # {}
    THEN [driver |-> d, config_err |-> ConfigMissing, driversMade |-> made]
  ELSE IF DriverRaises(e)
    THEN [driver |-> d, config_err |-> DriverInitFailed, driversMade |-> made]
  ELSE [driver |-> made + 1, config_err |-> err, driversMade |-> made + 1]

\* run_cypher(query), lines 85-128.
SvcRunCypher ==
  /\ svcCalls < MaxSvcCalls
  /\ \E query \in SvcQueries, out \in SessionOutcomes :
       LET s == _ensure_driver(driver, config_err, driversMade, env)
           reached == s.config_err = NoError /\ query # <<>>
           result ==
             IF s.config_err # NoError THEN Raised(s.config_err)
             ELSE IF query = <<>> THEN [kind |-> "return", rows |-> <<>>]
             ELSE SessionResult(out)
       IN /\ ~reached => out = CHOOSE o \in SessionOutcomes : ~o.opened
          /\ driver' = s.driver
          /\ config_err' = s.config_err
          /\ driversMade' = s.driversMade
          /\ svcOut' = [op |-> "run_cypher", query |-> query, result |-> result,
                        submission |->
                          IF reached THEN Submission(query, <<>>, s.driver, env, out)
                          ELSE NotSubmitted]
  /\ svcCalls' = svcCalls + 1
  /\ UNCHANGED <<pc, body, request, frame, response, http, ranCypher,
                 cypherOut, submitted, env, mapVars, aliasVars>>

\* Mutation: close() leaves the driver in place.
SvcClose_KeepsDriver ==
  /\ svcCalls < MaxSvcCalls
  /\ svcOut' = [op |-> "close"]
  /\ svcCalls' = svcCalls + 1
  /\ UNCHANGED <<pc, body, request, frame, response, http, ranCypher,
                 cypherOut, submitted, env, driver, config_err, driversMade,
                 mapVars, aliasVars>>

\* close(), lines 135-139.
SvcClose ==
  /\ svcCalls < MaxSvcCalls
  /\ driver' = NoDriver
  /\ svcOut' = [op |-> "close"]
  /\ svcCalls' = svcCalls + 1
  /\ UNCHANGED <<pc, body, request, frame, response, http, ranCypher,
                 cypherOut, submitted, env, config_err, driversMade, mapVars,
                 aliasVars>>

\* The process environment is changed between two calls; os.getenv reads it
\* anew at each call.
SetEnv ==
  /\ \E e \in Envs \ {env} : env' = e
  /\ UNCHANGED <<pc, body, request, frame, response, http, ranCypher,
                 cypherOut, submitted, driver, config_err, driversMade,
                 mapVars, aliasVars, svcVars>>

InitService == SysIdle /\ env \in Envs /\ MapIdle /\ AliasIdle /\ SvcIdle

NextService == SvcRunCypher \/ SvcClose \/ SetEnv

SpecService == InitService /\ [][NextService]_vars
-----------------------------------------------------------------------------
(* Properties of map_question, checked under SpecMap *)

MapQ == Normalize(mapIn.question)

MapResult == mapOut.value

Matched == mapOut.called /\ MapResult # NoMapping

\* The rules in the order the specification fixes: who works at, where is
\* ... located?, list people in, what organizations is ... affiliated with?,
\* coach, who is, teams, records, debut, retire, career statistics, born,
\* tell me about.
Qualifies(i, q) ==
  CASE i = 1 -> WorksAtPred(q) /\ WorksAtOrg(q) # <<>>
    [] i = 2 -> LocatedPred(q) /\ LocatedPerson(q) # <<>>
    [] i = 3 -> ListPeoplePred(q) /\ ListPeopleOrg(q) # <<>>
    [] i = 4 -> AffiliatedPred(q) /\ AffiliatedPerson(q) # <<>>
    [] i = 5 -> CoachPred(q) /\ CoachPerson(q) # <<>>
    [] i = 6 -> WhoIsPred(q) /\ WhoIsPerson(q) # <<>>
    [] i = 7 -> TeamsPred(q)
    [] i = 8 -> RecordsPred(q)
    [] i = 9 -> DebutPred(q)
    [] i = 10 -> RetirePred(q)
    [] i = 11 -> StatsPred(q)
    [] i = 12 -> BornPred(q)
    [] i = 13 -> AboutPred(q)

RuleResult(i, q, top_k, ord) ==
  CASE i = 1 -> RuleWorksAt(q, top_k)
    [] i = 2 -> RuleLocated(q, top_k, ord)
    [] i = 3 -> RuleListPeople(q, top_k)
    [] i = 4 -> RuleAffiliated(q, top_k, ord)
    [] i = 5 -> RuleCoach(q, top_k, ord)
    [] i = 6 -> RuleWhoIs(q, top_k, ord)
    [] i = 7 -> RuleTeams(q, top_k)
    [] i = 8 -> RuleRecords(q, top_k)
    [] i = 9 -> RuleDebut(q, top_k)
    [] i = 10 -> RuleRetire(q, top_k)
    [] i = 11 -> RuleStats(q, top_k)
    [] i = 12 -> RuleBorn(q, top_k)
    [] i = 13 -> RuleAbout(q)

RuleTemplates ==
  <<QueryWorksAt, QueryLocated, QueryListPeople, QueryAffiliated, QueryCoach,
    QueryWhoIs, QueryTeams, QueryRecords, QueryDebut, QueryRetire, QueryStats,
    QueryBorn, QueryAbout>>

RuleTemplate(i) == RuleTemplates[i]

Qualifying(question) ==
  IF IsFalsy(question) THEN {}
  ELSE {i \in DOMAIN RuleTemplates : Qualifies(i, Normalize(question))}

Earliest(S) == CHOOSE i \in S : \A j \in S : i <= j

\* C1: map_question returns the result of the earliest rule, in the fixed
\* order, whose predicate holds and whose extracted variable is non-empty,
\* and no match when no rule qualifies; a later rule's template is never
\* returned when an earlier rule qualifies.
C1_EarliestQualifyingRuleWins ==
  mapOut.called =>
    LET S == Qualifying(mapIn.question) IN
    IF S = {} THEN MapResult = NoMapping
    ELSE /\ MapResult # NoMapping
         /\ MapResult.query = RuleTemplate(Earliest(S))
         /\ \A j \in S : j > Earliest(S) => MapResult.query # RuleTemplate(j)
         /\ \E ord \in Orders :
              MapResult = RuleResult(Earliest(S), MapQ, mapIn.top_k, ord)

\* A question that satisfies the debut and the retire predicates got the
\* debut template.
C1_Witness ==
  /\ mapOut.called
  /\ ~IsFalsy(mapIn.question)
  /\ {9, 10} \subseteq Qualifying(mapIn.question)
  /\ Matched
  /\ MapResult.query = QueryDebut

\* C2 as stated: every match, by whichever rule, carries top_k equal to the
\* argument.
C2_EveryMatchCarriesTopK ==
  Matched =>
    /\ "top_k" \in DOMAIN MapResult.parameters
    /\ MapResult.parameters.top_k = mapIn.top_k

\* C2 as amended: every match by a rule other than the general-info rule
\* ("tell me about") carries top_k equal to the argument; the general-info
\* match, whose template ends in LIMIT 1, carries person only.
C2_MatchCarriesTopKExceptAbout ==
  Matched =>
    IF MapResult.query = QueryAbout
      THEN DOMAIN MapResult.parameters = {"person"}
      ELSE /\ "top_k" \in DOMAIN MapResult.parameters
           /\ MapResult.parameters.top_k = mapIn.top_k

\* A format-aware match with the largest top_k passed through.
C2_Witness ==
  /\ Matched
  /\ MapResult.query = QueryStats
  /\ mapIn.top_k = MaxTopK
  /\ MapResult.parameters.top_k = MaxTopK

\* The rules that extract an organization or a person.
ExtractingRules == 1..6

PredicateHolds(i, q) ==
  CASE i = 1 -> WorksAtPred(q)
    [] i = 2 -> LocatedPred(q)
    [] i = 3 -> ListPeoplePred(q)
    [] i = 4 -> AffiliatedPred(q)
    [] i = 5 -> CoachPred(q)
    [] i = 6 -> WhoIsPred(q)

\* What is left of q once the marker of rule i is removed: the text after the
\* prefix, and for the two bracketed rules the text between prefix and suffix.
AfterMarker(i, q) ==
  CASE i = 1 -> SubSeq(q, Len(WHO_WORKS_AT) + 1, Len(q))
    [] i = 2 -> SubSeq(q, Len(WHERE_IS) + 1, Len(q) - Len(LOCATED))
    [] i = 3 -> SubSeq(q, Len(LIST_PEOPLE_IN) + 1, Len(q))
    [] i = 4 -> SubSeq(q, Len(WHAT_ORGANIZATIONS_IS) + 1, Len(q) - Len(AFFILIATED_WITH))
    [] i = 5 -> IF startswith(q, WHO_IS_THE_COACH_OF)
                  THEN SubSeq(q, Len(WHO_IS_THE_COACH_OF) + 1, Len(q))
                  ELSE SubSeq(q, Len(WHO_COACHED) + 1, Len(q))
    [] i = 6 -> SubSeq(q, Len(WHO_IS) + 1, Len(q))

\* Trimming a trailing '?' and whitespace.
TrimQuestionMark(s) == strip(rstripQ(strip(s)))

NoEmptyValue ==
  Matched =>
    LET p == MapResult.parameters IN
    /\ "org" \in DOMAIN p => p.org # <<>>
    /\ "person" \in DOMAIN p => p.person # <<>>
    /\ "persons" \in DOMAIN p => \A k \in 1..Len(p.persons) : p.persons[k] # <<>>

\* C3: a rule whose predicate holds and whose organization or person is empty
\* once the marker is removed and a trailing '?' and whitespace are trimmed
\* does not produce the match, and no match carries an empty org, an empty
\* person or an empty element of persons.
C3_EmptyAfterTrimFallsThrough ==
  /\ NoEmptyValue
  /\ (mapOut.called /\ ~IsFalsy(mapIn.question)) =>
       \A i \in ExtractingRules :
         (PredicateHolds(i, MapQ) /\ TrimQuestionMark(AfterMarker(i, MapQ)) = <<>>)
           => (MapResult = NoMapping \/ MapResult.query # RuleTemplate(i))

IsBlank(question) ==
  question = None \/ \A i \in 1..Len(question) : question[i] \in Whitespace

\* C4: a question that is None, empty or whitespace only maps to no match,
\* whatever top_k is.
C4_BlankQuestionNoMatch ==
  (mapOut.called /\ IsBlank(mapIn.question)) => MapResult = NoMapping

\* A whitespace-only question was mapped to no match.
C4_Witness ==
  /\ mapOut.called
  /\ mapIn.question = <<" ","\t"," ">>
  /\ MapResult = NoMapping

\* C6: questions that differ only in letter case and in leading or trailing
\* whitespace have, for the same top_k, the same outcome: no match for all of
\* them, or the same template and the same parameter values.
C6_CaseAndSpaceInsensitive ==
  (mapOut.called /\ mapIn.question # None) =>
    \A y \in Variants(lower(strip(mapIn.question))) :
      \E ord \in Orders : map_question(y, mapIn.top_k, ord) = MapResult

\* The upper-case spelling of "who works at contoso?" got the organization
\* of the lower-case spelling.
C6_Witness ==
  /\ Matched
  /\ mapIn.question = <<"W","H","O"," ","W","O","R","K","S"," ","A","T"," ","C","O","N","T","O","S","O","?">>
  /\ MapResult.query = QueryWorksAt
  /\ MapResult.parameters.org = <<"c","o","n","t","o","s","o">>

Range(s) == {s[i] : i \in 1..Len(s)}

Trimmed(name) == IF name = None THEN <<>> ELSE strip(name)

\* Exactly two whitespace-separated tokens once the periods are removed, the
\* first of length 1, the second 'tendulkar' whatever its case.
InitialPlusTendulkar(name) ==
  LET tokens == split(removePeriods(Trimmed(name))) IN
  Len(tokens) = 2 /\ Len(tokens[1]) = 1 /\ lower(tokens[2]) = TENDULKAR

\* The variants as the claim lists them: the second one is the trimmed input
\* with every period removed.
StatedAliases(name) ==
  ({Trimmed(name), removePeriods(Trimmed(name))}
     \cup (IF InitialPlusTendulkar(name) THEN {SACHIN_TENDULKAR} ELSE {}))
    \ {<<>>}

\* The variants as amended: the second one is trimmed again once the periods
\* are removed.
AmendedAliases(name) ==
  ({Trimmed(name), strip(removePeriods(Trimmed(name)))}
     \cup (IF InitialPlusTendulkar(name) THEN {SACHIN_TENDULKAR} ELSE {}))
    \ {<<>>}

AliasResult == aliasOut.value

WellFormedAliasList(expected) ==
  /\ \A i, j \in 1..Len(AliasResult) : i # j => AliasResult[i] # AliasResult[j]
  /\ \A i \in 1..Len(AliasResult) : AliasResult[i] # <<>>
  /\ Range(AliasResult) = expected
  /\ Trimmed(aliasIn) = <<>> => AliasResult = <<>>
  /\ (Trimmed(aliasIn) # <<>> /\ "." \notin Range(Trimmed(aliasIn))
        /\ ~InitialPlusTendulkar(aliasIn)) => Len(AliasResult) = 1

\* C7 as stated: the result holds exactly the trimmed input, the trimmed
\* input with every period removed, and 'Sachin Tendulkar' for an initial
\* followed by Tendulkar.
C7_AliasesAsStated ==
  aliasOut.called => WellFormedAliasList(StatedAliases(aliasIn))

\* C7 as amended: the result holds, without duplicates and without empty
\* strings, exactly the trimmed input, the trimmed input with every period
\* removed and then trimmed again, and 'Sachin Tendulkar' if and only if the
\* period-stripped input is an initial followed by Tendulkar; a blank input
\* gives the empty result and a name without a period that is no initial
\* plus Tendulkar gives exactly one variant.
C7_AliasesTrimmedAgain ==
  aliasOut.called => WellFormedAliasList(AmendedAliases(aliasIn))

\* "S. TENDULKAR" gave its three variants.
C7_Witness ==
  /\ aliasOut.called
  /\ aliasIn = <<"S","."," ","T","E","N","D","U","L","K","A","R">>
  /\ Len(AliasResult) = 3
  /\ Range(AliasResult) = {<<"S","."," ","T","E","N","D","U","L","K","A","R">>, <<"S"," ","T","E","N","D","U","L","K","A","R">>, SACHIN_TENDULKAR}

PersonRules == {2, 4, 5, 6}

ExtractedPerson(i, q) ==
  CASE i = 2 -> LocatedPerson(q)
    [] i = 4 -> AffiliatedPerson(q)
    [] i = 5 -> CoachPerson(q)
    [] i = 6 -> WhoIsPerson(q)

\* C8: a match of a rule that extracts a person carries exactly one of person
\* and persons: persons, with all the variants of the alias set, at least two
\* and pairwise distinct, if and only if the alias set of the extracted
\* person has more than one element; otherwise person, the single variant.
C8_PersonOrPersons ==
  Matched =>
    \A i \in PersonRules :
      MapResult.query = RuleTemplate(i) =>
        LET p == MapResult.parameters
            aliases == AmendedAliases(ExtractedPerson(i, MapQ))
        IN /\ ("person" \in DOMAIN p) # ("persons" \in DOMAIN p)
           /\ ("persons" \in DOMAIN p) <=> Cardinality(aliases) > 1
           /\ "persons" \in DOMAIN p =>
                /\ Range(p.persons) = aliases
                /\ Len(p.persons) = Cardinality(aliases)
                /\ Len(p.persons) >= 2
           /\ "person" \in DOMAIN p => aliases = {p.person}

\* An affiliated-with match that carries the three variants of one person.
C8_Witness ==
  /\ Matched
  /\ MapResult.query = QueryAffiliated
  /\ "persons" \in DOMAIN MapResult.parameters
  /\ "person" \notin DOMAIN MapResult.parameters
  /\ Len(MapResult.parameters.persons) = 3

\* The markers of the claim in their fixed order, each with its token.
FormatMarkers ==
  <<[markers |-> {<<"t","e","s","t">>}, token |-> "Test"],
    [markers |-> {<<"o","d","i">>}, token |-> "ODI"],
    [markers |-> {<<"t","2","0","i">>, <<"t","2","0">>}, token |-> "T20I"],
    [markers |-> {<<"i","p","l">>}, token |-> "IPL"]>>

MarkersPresent(q) ==
  {i \in 1..Len(FormatMarkers) : \E m \in FormatMarkers[i].markers : contains(q, m)}

FormatRuleTemplates == {QueryDebut, QueryRetire, QueryStats}

\* C9: a match of the debut, retire or career-statistics rule carries format:
\* the token of the first marker present in the normalized question in the
\* order test, odi, t20i or t20, ipl, and null exactly when none of the four
\* is a substring, with or without 'international'.
C9_FormatOfFirstMarker ==
  (Matched /\ MapResult.query \in FormatRuleTemplates) =>
    /\ "format" \in DOMAIN MapResult.parameters
    /\ MapResult.parameters.format =
         IF MarkersPresent(MapQ) = {} THEN Null
         ELSE FormatMarkers[Earliest(MarkersPresent(MapQ))].token
    /\ MapResult.parameters.format = Null <=> MarkersPresent(MapQ) = {}

\* A debut question naming odi and test resolved to Test.
C9_Witness ==
  /\ Matched
  /\ MapResult.query = QueryDebut
  /\ {1, 2} \subseteq MarkersPresent(MapQ)
  /\ MapResult.parameters.format = "Test"

-----------------------------------------------------------------------------
(* Properties of the service, checked under Spec *)

Asked(c) == pc[c] # "idle"

\* The requests of the system specification that no rule matches.
UnmatchedRequests == {r \in SysRequests : Qualifying(r.question) = {}}

\* C5: for a question that no rule matches, ask returns, without raising,
\* the payload with cypher '', parameters {}, results [], a note and the
\* fixed non-empty list of examples, and never calls run_cypher, whatever
\* the state of the executor.
C5_NoMatchPayloadWithoutExecutor ==
  \A c \in Callers :
    (Asked(c) /\ request[c] \in UnmatchedRequests) =>
      /\ ranCypher[c] = <<>>
      /\ submitted[c] = NotSubmitted
      /\ pc[c] \notin {"ensure", "create", "run"}
      /\ pc[c] = "done" =>
           /\ response[c].kind = "return"
           /\ response[c].question = request[c].question
           /\ response[c].cypher = <<>>
           /\ response[c].parameters = <<>>
           /\ response[c].results = <<>>
           /\ "note" \in DOMAIN response[c].meta
           /\ response[c].meta.supported_examples = SUPPORTED_EXAMPLES
           /\ Len(response[c].meta.supported_examples) > 0

\* A no-match question was answered while the configuration was missing and
\* the configuration error was already recorded by another request.
C5_Witness ==
  \E c \in Callers :
    /\ pc[c] = "done"
    /\ request[c] \in UnmatchedRequests
    /\ request[c].question = <<"B","a","n","a","n","a","?">>
    /\ response[c].kind = "return"
    /\ Missing(env) # {}
    /\ config_err = ConfigMissing

MapReturned(c) == pc[c] \in {"mapped", "ensure", "create", "run", "done"}

\* What map_question returned to caller c.
Returned(c) == frame[FrameOf(c)].mapping

SameOutcome(m1, m2) ==
  /\ m1.matched = m2.matched
  /\ m1.matched =>
       /\ m1.query = m2.query
       /\ DOMAIN m1.parameters = DOMAIN m2.parameters
       /\ \A k \in DOMAIN m1.parameters :
            IF k = "persons"
              THEN Range(m1.parameters[k]) = Range(m2.parameters[k])
              ELSE m1.parameters[k] = m2.parameters[k]

\* What map_question returns for the arguments of each request, under each
\* iteration order of the alias set.
ExpectedResults ==
  [r \in SysRequests \cup {NoRequest} |->
     {map_question(r.question, r.top_k, ord) : ord \in Orders}]

ResultDependsOnArgumentsOnly ==
  /\ \A c \in Callers :
       MapReturned(c) =>
         \E m \in ExpectedResults[request[c]] : SameOutcome(Returned(c), m)
  /\ \A c1, c2 \in Callers :
       (MapReturned(c1) /\ MapReturned(c2) /\ request[c1] = request[c2]) =>
         SameOutcome(Returned(c1), Returned(c2))

OthersUntouched ==
  \A c \in Callers :
    pc'[c] = pc[c] =>
      /\ frame'[c] = frame[c]
      /\ request'[c] = request[c]
      /\ response'[c] = response[c]
      /\ http'[c] = http[c]
      /\ cypherOut'[c] = cypherOut[c]
      /\ submitted'[c] = submitted[c]
      /\ ranCypher'[c] = ranCypher[c]

\* C10: however the invocations of concurrent callers interleave, each
\* returns what its (question, top_k) alone determines (persons compared as
\* a set), two invocations with the same arguments return the same, and a
\* step of one invocation changes nothing another caller holds.
C10_DeterministicAndStateless ==
  []ResultDependsOnArgumentsOnly /\ [][OthersUntouched]_vars

\* Two callers asked the same person question with other steps in between
\* and both hold the same match.
C10_Witness ==
  /\ \A c \in Callers : pc[c] = "done"
  /\ \A c \in Callers : request[c].question = <<"W","h","e","r","e"," ","i","s"," ","A","."," ","B","."," ","l","o","c","a","t","e","d","?">>
  /\ \A c \in Callers : Returned(c) # NoMapping
  /\ \A c1, c2 \in Callers : SameOutcome(Returned(c1), Returned(c2))


-----------------------------------------------------------------------------
(* The template as a function of the rule, checked under SpecMap *)

\* One question per rule, in the order of the rules, none of them among the
\* questions asked, and a top_k that is not asked.
ReferenceQuestions ==
  <<<<"w","h","o"," ","w","o","r","k","s"," ","a","t"," ","z","e","t","a">>, <<"w","h","e","r","e"," ","i","s"," ","z","e","d"," ","l","o","c","a","t","e","d","?">>, <<"l","i","s","t"," ","p","e","o","p","l","e"," ","i","n"," ","z","e","t","a">>,
    <<"w","h","a","t"," ","o","r","g","a","n","i","z","a","t","i","o","n","s"," ","i","s"," ","z","e","d"," ","a","f","f","i","l","i","a","t","e","d"," ","w","i","t","h","?">>, <<"w","h","o"," ","c","o","a","c","h","e","d"," ","z","e","d">>,
    <<"w","h","o"," ","i","s"," ","z","e","d">>, <<"i","n"," ","2","0","1","1"," ","w","h","a","t"," ","t","e","a","m","s"," ","d","i","d"," ","s","a","c","h","i","n"," ","t","e","n","d","u","l","k","a","r"," ","p","l","a","y"," ","f","o","r">>,
    <<"i","n"," ","2","0","1","1"," ","w","h","a","t"," ","r","e","c","o","r","d","s"," ","d","o","e","s"," ","s","a","c","h","i","n"," ","t","e","n","d","u","l","k","a","r"," ","h","o","l","d">>, <<"i","n"," ","2","0","1","1",","," ","w","h","e","n"," ","d","i","d"," ","s","a","c","h","i","n"," ","t","e","n","d","u","l","k","a","r"," ","d","e","b","u","t">>,
    <<"i","n"," ","2","0","1","1",","," ","w","h","e","n"," ","d","i","d"," ","s","a","c","h","i","n"," ","t","e","n","d","u","l","k","a","r"," ","r","e","t","i","r","e">>, <<"s","t","a","t","s"," ","o","f"," ","s","a","c","h","i","n"," ","t","e","n","d","u","l","k","a","r"," ","i","n"," ","2","0","1","1">>,
    <<"i","n"," ","2","0","1","1"," ","w","h","e","r","e"," ","w","a","s"," ","s","a","c","h","i","n"," ","t","e","n","d","u","l","k","a","r"," ","b","o","r","n">>, <<"t","e","l","l"," ","m","e"," ","a","b","o","u","t"," ","s","a","c","h","i","n"," ","t","e","n","d","u","l","k","a","r"," ","i","n"," ","2","0","1","1">>>>

ReferenceTopK == MinTopK + 1

\* The rule that answers the question.
MatchedRule(question) == Earliest(Qualifying(question))

\* C11: the template depends on the matched rule only: the template returned
\* for a question is, fragment for fragment, the one the same rule returns
\* for another question and another top_k, so neither the question's text
\* nor top_k is part of it; what the question contributes is in the
\* parameter values.
C11_TemplateDependsOnRuleOnly ==
  /\ \A i \in DOMAIN ReferenceQuestions :
       /\ ReferenceQuestions[i] \notin Questions
       /\ MatchedRule(ReferenceQuestions[i]) = i
  /\ Matched =>
       LET i == MatchedRule(mapIn.question) IN
       \A ord \in Orders :
         LET ref == map_question(ReferenceQuestions[i], ReferenceTopK, ord) IN
         /\ ref # NoMapping
         /\ MapResult.query = ref.query
         /\ MapResult.parameters # ref.parameters \/ i = Len(RuleTemplates)

\* A question about another organization, with another top_k, got the
\* works-at template of the reference question.
C11_Witness ==
  /\ Matched
  /\ MatchedRule(mapIn.question) = 1
  /\ MapResult.parameters.org = <<"a","c","m","e"," ","i","n","c",".">>
  /\ mapIn.top_k = MaxTopK
  /\ MapResult.query = map_question(ReferenceQuestions[1], ReferenceTopK, <<1, 2, 3>>).query

-----------------------------------------------------------------------------
(* Properties of the view, the service and the executor, checked under Spec *)

\* The requests of the system specification that a rule matches.
MatchedRequests == SysRequests \ UnmatchedRequests

Dispatched(c) == pc[c] \in {"ensure", "create", "run", "done"}

\* C12: for a matched question ask calls run_cypher exactly once, with the
\* template and the bag the mapper returned; when that call raises, ask
\* makes no second call and raises the same error, which the view answers
\* with status 500 and the error's message.
C12_SingleAttemptErrorPropagates ==
  \A c \in Callers :
    /\ Len(ranCypher[c]) <= 1
    /\ (request[c] \in MatchedRequests /\ Dispatched(c)) =>
         /\ Returned(c) # NoMapping
         /\ ranCypher[c] = <<[query |-> Returned(c).query,
                              parameters |-> Returned(c).parameters]>>
         /\ (pc[c] = "done" /\ cypherOut[c].kind = "raise") =>
              /\ response[c] = cypherOut[c]
              /\ http[c] = [status |-> 500, detail |-> cypherOut[c].message]
         /\ (pc[c] = "done" /\ cypherOut[c].kind = "return") =>
              /\ response[c].kind = "return"
              /\ response[c].results = cypherOut[c].rows
              /\ http[c].status = 200

\* The session raised for a matched question: one call was made and the view
\* answered 500 with the message of the error.
C12_Witness ==
  \E c \in Callers :
    /\ pc[c] = "done"
    /\ request[c] \in MatchedRequests
    /\ Len(ranCypher[c]) = 1
    /\ submitted[c].submitted
    /\ cypherOut[c] = Raised(QueryFailed)
    /\ http[c] = [status |-> 500, detail |-> QueryFailed]

\* The body breaks a constraint of the request: no question, a question that
\* is blank or longer than 500 characters once trimmed, or a top_k outside
\* [1, 100].
InvalidBody(b) ==
  \/ "question" \notin DOMAIN b
  \/ Trimmed(b.question) = <<>>
  \/ Len(Trimmed(b.question)) > MaxLength
  \/ "top_k" \in DOMAIN b /\ (b.top_k < MinTopK \/ b.top_k > MaxTopK)

EngineUntouched(c) ==
  /\ request[c] = NoRequest
  /\ ranCypher[c] = <<>>
  /\ cypherOut[c] = NoOutcome
  /\ submitted[c] = NotSubmitted
  /\ response[c] = NoResponse

\* The bodies of the system specification that break a constraint, and for
\* the others the question once trimmed.
InvalidBodies == {b \in SysBodies : InvalidBody(b)}

TrimmedQuestion == [b \in SysBodies \ InvalidBodies |-> Trimmed(b.question)]

PersonClauseTemplates ==
  {RuleTemplates[i] : i \in DOMAIN RuleTemplates \ {1, 3}}

\* C15: whenever run_cypher submits a template that uses the person clause,
\* the submitted parameters bind person to a non-empty string and persons
\* to a non-empty list of non-empty strings, so neither coalesce takes its
\* default.
C15_PersonAndPersonsBound ==
  \A c \in Callers :
    (submitted[c].submitted /\ submitted[c].query \in PersonClauseTemplates) =>
      LET p == submitted[c].parameters IN
      /\ {"person", "persons"} \subseteq DOMAIN p
      /\ p.person # <<>>
      /\ p.persons # <<>>
      /\ \A k \in 1..Len(p.persons) : p.persons[k] # <<>>
      /\ p.person \in Range(p.persons)

\* One bag held persons only and one held person only; both were submitted
\* with both keys bound.
C15_Witness ==
  \E c1, c2 \in Callers :
    /\ submitted[c1].submitted /\ submitted[c2].submitted
    /\ submitted[c1].query = QueryLocated
    /\ submitted[c2].query = QueryWhoIs
    /\ "person" \notin DOMAIN ranCypher[c1][1].parameters
    /\ "persons" \notin DOMAIN ranCypher[c2][1].parameters
    /\ Len(submitted[c1].parameters.persons) > 1
    /\ submitted[c2].parameters.persons = <<<<"a","l","i","c","e">>>>

\* The configuration with which a driver is constructed.
ValidConfiguration(e) == Missing(e) = {} /\ ~DriverRaises(e)

\* C17: with valid configuration the driver is constructed at most once and
\* every session is opened on that one driver, however the calls of
\* concurrent callers interleave.
C17_DriverConstructedOnce ==
  ValidConfiguration(env) =>
    /\ driversMade <= 1
    /\ \A c \in Callers : submitted[c].submitted => submitted[c].driver = 1

-----------------------------------------------------------------------------
(* The bracketed rules and the offered examples, checked under SpecMap *)

\* The two markers of a bracketed rule with nothing between them, written
\* with both spaces or with the single space the markers share.
OnlyMarkers(prefix, suffix) == {prefix \o suffix, strip(prefix) \o suffix}

MarkerTexts ==
  {strip(WHERE_IS), strip(LOCATED), strip(WHAT_ORGANIZATIONS_IS),
   strip(AFFILIATED_WITH)}

\* The person values of a bag.
PersonValues(p) ==
  (IF "person" \in DOMAIN p THEN {p.person} ELSE {})
    \cup (IF "persons" \in DOMAIN p THEN Range(p.persons) ELSE {})

\* C16: a question made of the prefix and the suffix of a bracketed rule
\* with no text between them, the markers sharing their space or not, is no
\* match of that rule, and no match of a bracketed rule has a marker's text
\* as its person.
C16_MarkersAloneDoNotMatch ==
  mapOut.called =>
    /\ MapQ \in OnlyMarkers(WHERE_IS, LOCATED) =>
         (MapResult = NoMapping \/ MapResult.query # QueryLocated)
    /\ MapQ \in OnlyMarkers(WHAT_ORGANIZATIONS_IS, AFFILIATED_WITH) =>
         (MapResult = NoMapping \/ MapResult.query # QueryAffiliated)
    /\ (Matched /\ MapResult.query \in {QueryLocated, QueryAffiliated}) =>
         PersonValues(MapResult.parameters) \cap MarkerTexts = {}

\* The rule each offered example names, in the order of the list.
ExampleRules == <<1, 2, 3, 4, 6>>

\* C20: each example the no-match payload offers is matched, for every
\* top_k, by the rule its phrasing names.
C20_OfferedExamplesAreMatched ==
  /\ Len(ExampleRules) = Len(SUPPORTED_EXAMPLES)
  /\ SUPPORTED_EXAMPLES = NoMatchPayload(<<>>).meta.supported_examples
  /\ \A k \in DOMAIN SUPPORTED_EXAMPLES :
       (mapOut.called /\ mapIn.question = SUPPORTED_EXAMPLES[k]) =>
         /\ Matched
         /\ MapResult.query = RuleTemplate(ExampleRules[k])
         /\ MapResult.parameters.top_k = mapIn.top_k
         /\ MatchedRule(mapIn.question) = ExampleRules[k]

\* The fifth example, 'Who is Alice?', was mapped with the largest top_k by
\* the who-is rule.
C20_Witness ==
  /\ Matched
  /\ mapIn.question = SUPPORTED_EXAMPLES[5]
  /\ mapIn.top_k = MaxTopK
  /\ MapResult.query = QueryWhoIs
  /\ MapResult.parameters.person = <<"a","l","i","c","e">>

-----------------------------------------------------------------------------
(* Properties of one service called sequentially, checked under SpecService *)

RunCypherStep == svcCalls' = svcCalls + 1 /\ svcOut'.op = "run_cypher"

CloseStep == svcCalls' = svcCalls + 1 /\ svcOut'.op = "close"

NeverDriverAndError == ~(driver # NoDriver /\ config_err # NoError)

DriverAbsentAfterClose == CloseStep => driver' = NoDriver

\* The call after a close(), made with valid configuration, constructs a
\* driver.
RunAfterCloseConstructs ==
  (svcOut.op = "close" /\ RunCypherStep /\ ValidConfiguration(env)) =>
    /\ driversMade' = driversMade + 1
    /\ driver' = driversMade'

\* The same for a service that has no error recorded.
RunAfterCloseConstructsUnlessError ==
  (svcOut.op = "close" /\ RunCypherStep /\ ValidConfiguration(env)
     /\ config_err = NoError) =>
    /\ driversMade' = driversMade + 1
    /\ driver' = driversMade'

\* C18 as stated: over sequential run_cypher and close calls the service
\* never holds a driver and a recorded error together, close() leaves no
\* driver, and the next run_cypher with valid configuration constructs one.
C18_CloseThenRunConstructs ==
  /\ []NeverDriverAndError
  /\ [][DriverAbsentAfterClose]_vars
  /\ [][RunAfterCloseConstructs]_vars

\* C18 as the code has it: the same, the next run_cypher constructing a
\* driver when, besides the configuration being valid, no error is recorded.
C18_CloseThenRunConstructsUnlessError ==
  /\ []NeverDriverAndError
  /\ [][DriverAbsentAfterClose]_vars
  /\ [][RunAfterCloseConstructsUnlessError]_vars

\* A second driver exists: the first was closed and the call after close()
\* constructed another.
C18_Witness ==
  /\ svcOut.op = "run_cypher"
  /\ driversMade = 2
  /\ driver = 2
  /\ config_err = NoError
  /\ svcCalls = 3

\* Once an error is recorded, a step keeps it, constructs no driver, and a
\* run_cypher call, whatever its query, raises it and opens no session.
RecordedErrorStays ==
  config_err # NoError =>
    /\ config_err' = config_err
    /\ driversMade' = driversMade
    /\ driver' = NoDriver
    /\ RunCypherStep =>
         /\ svcOut'.result = Raised(config_err)
         /\ svcOut'.submission = NotSubmitted

\* C19: once a run_cypher call has recorded a configuration or
\* driver-initialization error, every later run_cypher call raises that
\* error and attempts no driver, for any query, the empty one included,
\* whatever becomes of the environment and whether close() is called; no
\* operation clears the error.
C19_RecordedErrorIsSticky == [][RecordedErrorStays]_vars

\* The missing-configuration error was raised for an empty query after the
\* environment had been completed and three calls had been made.
C19_Witness ==
  /\ config_err = ConfigMissing
  /\ env = EnvComplete
  /\ svcCalls = MaxSvcCalls
  /\ svcOut.op = "run_cypher"
  /\ svcOut.query = <<>>
  /\ svcOut.result = Raised(ConfigMissing)
  /\ driversMade = 0

Settings == {"NEO4J_URI", "NEO4J_USER", "NEO4J_PASSWORD", "NEO4J_DATABASE"}

Credentials == {"NEO4J_URI", "NEO4J_USER", "NEO4J_PASSWORD"}

MissingOrEmpty(S) == \E k \in S : env[k] = Unset \/ env[k] = ""

\* The call is the first use of the executor: nothing is constructed or
\* recorded yet.
FirstUse == RunCypherStep /\ driversMade = 0 /\ config_err = NoError

\* The call failed closed: the configuration error is raised, no driver
\* exists and no session was opened.
FailsClosed ==
  /\ svcOut'.result = Raised(ConfigMissing)
  /\ svcOut'.submission = NotSubmitted
  /\ driver' = NoDriver
  /\ driversMade' = 0

\* C13 as stated: with any of the four settings missing or empty at the
\* first use, run_cypher fails with the configuration error, creates no
\* driver and opens no session.
C13_AnyMissingSettingFailsClosed ==
  [][(FirstUse /\ MissingOrEmpty(Settings)) => FailsClosed]_vars

\* With the database name alone missing or empty, the first use constructs
\* the driver and a session it opens is on the default database 'neo4j'.
DatabaseDefaults ==
  (FirstUse /\ ~MissingOrEmpty(Credentials) /\ MissingOrEmpty({"NEO4J_DATABASE"})
     /\ ~DriverRaises(env)) =>
    /\ driver' # NoDriver
    /\ svcOut'.result # Raised(ConfigMissing)
    /\ svcOut'.submission # NotSubmitted => svcOut'.submission.database = "neo4j"

\* C13 as the code has it: with the URI, the user or the password missing or
\* empty at the first use, run_cypher fails with the configuration error,
\* creates no driver and opens no session; a missing or empty database name
\* is replaced by the default 'neo4j'.
C13_MissingCredentialFailsClosed ==
  /\ [][(FirstUse /\ MissingOrEmpty(Credentials)) => FailsClosed]_vars
  /\ [][DatabaseDefaults]_vars

\* The first call, made with the password empty, raised the configuration
\* error and no driver exists.
C13_Witness ==
  /\ svcCalls = 1
  /\ env.NEO4J_PASSWORD = ""
  /\ svcOut.op = "run_cypher"
  /\ svcOut.result = Raised(ConfigMissing)
  /\ svcOut.submission = NotSubmitted
  /\ driver = NoDriver
  /\ driversMade = 0

-----------------------------------------------------------------------------
(* Trigger phrasings and the coach rule's extraction *)

\* The phrasings the Sachin Tendulkar predicates compare the whole question
\* with (lines 307, 321, 399 and 412), each with the rule whose predicate
\* lists it, and 'tell me about sachin tendulkar', the phrasing the
\* general-info rule is named after.
ListedTriggers ==
  {<<TEAMS_PLAYED_FOR, 7>>, <<SACHIN_RECORDS, 8>>, <<RECORDS_OF_SACHIN, 8>>,
   <<SACHIN_BIRTHPLACE, 12>>, <<BIRTHPLACE_OF_SACHIN, 12>>,
   <<TELL_ME_ABOUT \o SACHIN, 13>>, <<ABOUT_SACHIN, 13>>, <<WHO_IS_SACHIN, 13>>}

GeneralInfo == CypherQuery(QueryAbout, [person |-> SACHIN_TENDULKAR])

\* C21: a question that normalizes to a phrasing listed in a rule's
\* predicate gets that rule's template; the three phrasings of the
\* general-info rule, 'who is sachin tendulkar' among them, get the summary
\* template ending in LIMIT 1 with person 'Sachin Tendulkar' and nothing
\* else.
C21_ListedTriggerSelectsItsRule ==
  mapOut.called =>
    \A t \in ListedTriggers :
      MapQ = t[1] =>
        /\ Matched
        /\ MapResult.query = RuleTemplate(t[2])
        /\ t[2] = 13 => MapResult = GeneralInfo

\* The text the coach rule is to take as the person: what follows the prefix
\* the question starts with, without trailing '?' and surrounding whitespace.
CoachRemainder(q) == strip(rstripQ(AfterMarker(5, q)))

\* C22: a match of the coach rule binds the remainder after the matched
\* prefix, trimmed of trailing '?' and of whitespace and otherwise whole,
\* also when the remainder holds the other coach marker.
C22_CoachPersonIsRemainder ==
  (Matched /\ MapResult.query = QueryCoach) =>
    \E ord \in Orders :
      MapResult.parameters = PersonParams(CoachRemainder(MapQ), mapIn.top_k, ord)
====
